---- MODULE Spec2Model ----
(***************************************************************************)
(* Model of youtube_playlist_downloader_new.py: the playlist orchestrator  *)
(* (download_playlist), the format-fallback downloader, the existence      *)
(* resolver, the filename sanitizer and the run ledger.                    *)
(*                                                                         *)
(* Python strings are sequences of one-character strings, so that          *)
(* formatting, sanitizing and matching are computed and not assumed.       *)
(* Timestamps of the records are left out: no control flow reads them.     *)
(***************************************************************************)
EXTENDS Integers, Sequences, FiniteSets, TLC

\* ------------------------------------------------------------------ bounds
\* Longest playlist the enumeration returns.
MaxEntries == 3
\* Longest playlist of a request that is run again.
MaxRerunEntries == 2
\* Number of download_playlist calls made on the one downloader object when
\* it is used again after a call returned.
MaxRuns == 2

\* ------------------------------------------------------- string helpers
\* Python's None where a string is expected, and where a tag is expected
NoStr == <<>>
None == "none"

Uppers == <<"A","B","C","D","E","F","G","H","I","J","K","L","M",
            "N","O","P","Q","R","S","T","U","V","W","X","Y","Z">>
Lowers == <<"a","b","c","d","e","f","g","h","i","j","k","l","m",
            "n","o","p","q","r","s","t","u","v","w","x","y","z">>
Digits == <<"0","1","2","3","4","5","6","7","8","9">>

Range(s) == {s[k] : k \in DOMAIN s}

\* str.lower() / str.upper() on one character
LowerChar(c) ==
    IF c \in Range(Uppers)
    THEN Lowers[CHOOSE k \in DOMAIN Uppers : Uppers[k] = c]
    ELSE c
UpperChar(c) ==
    IF c \in Range(Lowers)
    THEN Uppers[CHOOSE k \in DOMAIN Lowers : Lowers[k] = c]
    ELSE c
Lower(s) == [k \in DOMAIN s |-> LowerChar(s[k])]
Upper(s) == [k \in DOMAIN s |-> UpperChar(s[k])]

\* the regular expression classes \s and \w
IsSpace(c) == c \in {" ", "\t", "\n"}
IsWordChar(c) == c \in Range(Uppers) \cup Range(Lowers) \cup Range(Digits) \cup {"_"}

\* str(n) for n >= 0
RECURSIVE Dec(_)
Dec(n) == IF n < 10 THEN <<Digits[n + 1]>> ELSE Dec(n \div 10) \o <<Digits[(n % 10) + 1]>>

\* f"{n:02d}"
Fmt02(n) == IF Len(Dec(n)) < 2 THEN <<"0">> \o Dec(n) ELSE Dec(n)

\* needle occurs in hay at position k
OccursAt(hay, needle, k) ==
    /\ k >= 1
    /\ k + Len(needle) - 1 <= Len(hay)
    /\ \A j \in 1..Len(needle) : hay[k + j - 1] = needle[j]
\* Python's "needle in hay"
Contains(hay, needle) == \E k \in 1..(Len(hay) + 1) : OccursAt(hay, needle, k)
StartsWith(hay, needle) == OccursAt(hay, needle, 1)

\* ---------------------------------------------------- sanitize_filename
IllegalChars == {"<", ">", ":", "\"", "/", "\\", "|", "?", "*"}
MaxNameLen == 200
Ellipsis == <<".", ".", ".">>

ReplaceIllegal(s) == [k \in DOMAIN s |-> IF s[k] \in IllegalChars THEN "_" ELSE s[k]]

\* re.sub(r'\s+', ' ', s)
\* every run of whitespace leaves one space, at the place of its last character
CollapseSpaces(s) ==
    LET marked == [k \in DOMAIN s |->
                      [c |-> IF IsSpace(s[k]) THEN " " ELSE s[k],
                       keep |-> ~IsSpace(s[k]) \/ k = Len(s) \/ ~IsSpace(s[k + 1])]]
        Kept(m) == m.keep
        kept == SelectSeq(marked, Kept)
    IN  [k \in DOMAIN kept |-> kept[k].c]

RECURSIVE LStrip(_)
LStrip(s) == IF s # <<>> /\ IsSpace(Head(s)) THEN LStrip(Tail(s)) ELSE s
RECURSIVE RStrip(_)
RStrip(s) == IF s # <<>> /\ IsSpace(s[Len(s)]) THEN RStrip(SubSeq(s, 1, Len(s) - 1)) ELSE s
Strip(s) == RStrip(LStrip(s))

\* slip: whitespace at the cut is stripped before the marker is added
TruncateStripped(s) ==
    IF Len(s) > MaxNameLen THEN RStrip(SubSeq(s, 1, MaxNameLen)) \o Ellipsis ELSE s
Truncate(s) == IF Len(s) > MaxNameLen THEN SubSeq(s, 1, MaxNameLen) \o Ellipsis ELSE s

sanitize_filename(filename) == Truncate(Strip(CollapseSpaces(ReplaceIllegal(filename))))

\* ---------------------------------------------------- check_file_exists
possible_formats == << <<".","w","a","v">>, <<".","m","p","3">>, <<".","m","4","a">>,
                       <<".","w","e","b","m">>, <<".","o","p","u","s">> >>

Sep == <<" ", "-", " ">>
\* slip: the ordinal is not padded to two digits, as the output template pads it
exact_patterns_unpadded(index, title) ==
    << Dec(index) \o Sep \o sanitize_filename(title),
       Dec(index) \o Sep \o title >>
exact_patterns(index, title) ==
    << Fmt02(index) \o Sep \o sanitize_filename(title),
       Fmt02(index) \o Sep \o title >>

\* slip: the loops are nested the other way round, formats outside
ExactCandidatesByFormat(index, title) ==
    [n \in 1..(2 * Len(possible_formats)) |->
        LET e == ((n - 1) \div 2) + 1
            p == ((n - 1) % 2) + 1
        IN  [path |-> exact_patterns(index, title)[p] \o possible_formats[e],
             format |-> Upper(Tail(possible_formats[e]))]]
\* the candidate paths in the order the two nested loops test them
ExactCandidates(index, title) ==
    [n \in 1..(2 * Len(possible_formats)) |->
        LET p == ((n - 1) \div Len(possible_formats)) + 1
            e == ((n - 1) % Len(possible_formats)) + 1
        IN  [path |-> exact_patterns(index, title)[p] \o possible_formats[e],
             format |-> Upper(Tail(possible_formats[e]))]]

\* pathlib: suffix is the last dot and what follows it, unless the dot leads
\* or ends the name; stem is the rest.
LastDot(name) ==
    IF \E k \in DOMAIN name : name[k] = "."
    THEN CHOOSE k \in DOMAIN name : name[k] = "." /\ \A j \in (k + 1)..Len(name) : name[j] # "."
    ELSE 0
PathSuffix(name) ==
    IF LastDot(name) > 1 /\ LastDot(name) < Len(name)
    THEN SubSeq(name, LastDot(name), Len(name))
    ELSE <<>>
PathStem(name) == SubSeq(name, 1, Len(name) - Len(PathSuffix(name)))

\* str.split() on whitespace
RECURSIVE Split(_)
Split(s) ==
    LET t == LStrip(s)
        RECURSIVE WordLen(_)
        WordLen(k) == IF k < Len(t) /\ ~IsSpace(t[k + 1]) THEN WordLen(k + 1) ELSE k
    IN  IF t = <<>> THEN <<>>
        ELSE <<SubSeq(t, 1, WordLen(0))>> \o Split(SubSeq(t, WordLen(0) + 1, Len(t)))

KeepWordOrSpace(c) == IsWordChar(c) \/ IsSpace(c)
title_keywords(clean_title) == Split(SelectSeq(Lower(clean_title), KeepWordOrSpace))
IsSignificant(kw) == Len(kw) > 2
significant_keywords(clean_title) == SelectSeq(title_keywords(clean_title), IsSignificant)

\* slip: the threshold is truncated to a whole number, int(len * 0.7)
FuzzyAcceptsTruncated(name, title) ==
    LET kws == significant_keywords(sanitize_filename(title))
        file_stem == Lower(PathStem(name))
        matches == Cardinality({k \in DOMAIN kws : Contains(file_stem, kws[k])})
    IN  /\ kws # <<>>
        /\ matches >= (7 * Len(kws)) \div 10
\* matches >= len(significant_keywords) * 0.7: the double 0.7 lies below 7/10
\* and whole numbers are doubles, so the rounded product is on the same side
\* of every whole number as 7 * len / 10
FuzzyAccepts(name, title) ==
    LET kws == significant_keywords(sanitize_filename(title))
        file_stem == Lower(PathStem(name))
        matches == Cardinality({k \in DOMAIN kws : Contains(file_stem, kws[k])})
    IN  /\ kws # <<>>
        /\ 10 * matches >= 7 * Len(kws)

FuzzyFormat(name) ==
    IF PathSuffix(name) # <<>> THEN Upper(Tail(PathSuffix(name))) ELSE <<"U","N","K","N","O","W","N">>

\* The set of results check_file_exists can return: the exact phase is
\* deterministic; the fuzzy phase returns the first accepted file in the
\* order glob() yields them, which the file system chooses.
check_file_exists(playlist_dir, index, title) ==
    LET cands == ExactCandidates(index, title)
        hits == {n \in DOMAIN cands : cands[n].path \in playlist_dir}
        first == CHOOSE n \in hits : \A m \in hits : n <= m
        index_prefix == Fmt02(index) \o <<" ", "-">>
        fuzzy == {f \in playlist_dir : StartsWith(f, index_prefix) /\ FuzzyAccepts(f, title)}
    IN  IF hits # {}
        THEN {[exists |-> TRUE, path |-> cands[first].path, format |-> cands[first].format]}
        ELSE IF fuzzy # {}
        THEN {[exists |-> TRUE, path |-> f, format |-> FuzzyFormat(f)] : f \in fuzzy}
        ELSE {[exists |-> FALSE, path |-> NoStr, format |-> NoStr]}

\* ------------------------------------------------------------ the inputs
Song == <<"S","o","n","g">>
\* a title with an illegal character
Odd == <<"a","?","b">>
Titles == {Song, Odd}
Url == <<"u">>

\* A playlist entry: None (a removed video; present is FALSE), or a dict with
\* a title and, unless the extractor left it out, a webpage_url.
EmptyEntry == [present |-> FALSE, title |-> NoStr, has_url |-> FALSE]
Entries == {EmptyEntry} \cup [present : {TRUE}, title : Titles, has_url : BOOLEAN]

RerunEntries == {EmptyEntry} \cup [present : {TRUE}, title : {Odd}, has_url : BOOLEAN]

RECURSIVE SeqsUpTo(_, _)
SeqsUpTo(S, n) ==
    IF n = 0 THEN {<<>>}
    ELSE SeqsUpTo(S, n - 1) \cup {Append(s, e) : s \in {t \in SeqsUpTo(S, n - 1) : Len(t) = n - 1}, e \in S}

\* what str(exception) of a failed codec call can be
ErrMsgs == {<<"4","0","3">>, <<"f","f">>}
\* ... and what it is in the runs of the orchestrator
WavErrMsgs == {<<"4","0","3">>}
Mp3ErrMsgs == {<<"f","f">>}

\* how a call of the collaborator ends
Succeeded == [ok |-> TRUE, msg |-> NoStr]
Raised(msg) == [ok |-> FALSE, msg |-> msg]
CodecOutcomes == {Succeeded} \cup {Raised(m) : m \in ErrMsgs}

\* the files the playlist directory may hold before the first run
InitialDirs == {{}, {Fmt02(1) \o Sep \o Song \o <<".","m","p","3">>}}

\* ---------------------------------------------------------------- state
VARIABLES
    playlist,          \* what the enumeration collaborator returns for the url
    start_index,       \* the request
    end_index,         \* the request; 0 stands for None (both are falsy)
    playlist_dir,      \* names of the files in the playlist directory
    failed_downloads,  \* self.failed_downloads
    format_attempts,   \* self.format_attempts
    total_count,       \* self.total_count
    download_count,    \* self.download_count
    current_format,    \* self.current_format
    pc,                \* where download_playlist stands
    entries,           \* local: the sliced window
    pos,               \* local: the enumerate() index of the last entry iterated
    success_count,     \* local
    ret,               \* local: what download_with_format_fallback returned last
    codec,             \* how the collaborator's two calls end for the entry at hand
    resolved,          \* local: what check_file_exists returned last
    filename,          \* the string sanitize_filename works on
    result,            \* what the last call returned
    runs,              \* number of download_playlist calls started
    log_files,         \* the ledger files written under logs/
    summaries,         \* the summaries printed
    events             \* what the run did, in order

vars == <<playlist, start_index, end_index, playlist_dir, failed_downloads, format_attempts,
          total_count, download_count, current_format, pc, entries, pos, success_count,
          ret, codec, resolved, filename, result, runs, log_files, summaries, events>>

request == <<playlist, start_index, end_index>>
fields == <<failed_downloads, format_attempts, total_count, download_count, current_format>>
locals == <<entries, pos, success_count, ret, codec, resolved, filename>>
NoRet == [success |-> FALSE, format_used |-> None, error_msg |-> NoStr]
NotFound == [exists |-> FALSE, path |-> NoStr, format |-> NoStr]

Event(op, index, format, ok, msg) ==
    [run |-> runs, op |-> op, index |-> index, format |-> format, ok |-> ok, msg |-> msg]

\* the object after __init__, before the first call
Constructed ==
    /\ failed_downloads = <<>>
    /\ format_attempts = <<>>
    /\ total_count = 0
    /\ download_count = 0
    /\ current_format = "wav"
    /\ pc = "idle"
    /\ entries = <<>>
    /\ pos = 0
    /\ success_count = 0
    /\ ret = NoRet
    /\ codec = <<Succeeded, Succeeded>>
    /\ resolved = NotFound
    /\ filename = NoStr
    /\ result = None
    /\ runs = 0
    /\ log_files = <<>>
    /\ summaries = <<>>
    /\ events = <<>>

Init ==
    /\ playlist \in SeqsUpTo(Entries, MaxEntries)
    /\ start_index \in {1, 2}
    /\ end_index \in {0, MaxEntries}
    /\ playlist_dir \in InitialDirs
    /\ Constructed

\* the same request run again over the same directory
InitRerun ==
    /\ playlist \in SeqsUpTo(RerunEntries, MaxRerunEntries)
    /\ start_index \in {1, 2}
    /\ end_index = 0
    /\ playlist_dir = {}
    /\ Constructed

\* ------------------------------------------------------ download_playlist
\* list[lo:hi] for 0 <= lo and 0 <= hi
PySlice(s, lo, hi) == SubSeq(s, lo + 1, IF hi < Len(s) THEN hi ELSE Len(s))

WindowEntries(all, start, end) ==
    IF end # 0 THEN PySlice(all, start - 1, end)
    ELSE IF start > 1 THEN PySlice(all, start - 1, Len(all))
    ELSE all

\* slip: the window is taken to exclude its last ordinal
WindowTotalOffByOne(all, start, end) ==
    IF end # 0 THEN end - start
    ELSE Len(WindowEntries(all, start, end))
WindowTotal(all, start, end) ==
    IF end # 0 THEN end - start + 1
    ELSE Len(WindowEntries(all, start, end))

\* slip: a failed enumeration is taken for an empty playlist and the run goes on
EnumerateFailsGoesOn ==
    /\ pc = "idle"
    /\ runs' = runs + 1
    /\ entries' = <<>>
    /\ total_count' = 0
    /\ success_count' = 0
    /\ pos' = 0
    /\ pc' = "loop"
    /\ result' = None
    /\ events' = Append(events, [run |-> runs + 1, op |-> "enumerate", index |-> 0,
                                 format |-> None, ok |-> FALSE, msg |-> NoStr])
    /\ UNCHANGED <<request, playlist_dir, failed_downloads, format_attempts,
                   download_count, current_format, ret, codec, resolved, filename,
                   log_files, summaries>>

\* get_playlist_info raised or returned nothing: the call returns False
EnumerateFails ==
    /\ pc = "idle"
    /\ runs' = runs + 1
    /\ pc' = "returned"
    /\ result' = "false"
    /\ events' = events \o << [run |-> runs + 1, op |-> "enumerate", index |-> 0,
                                format |-> None, ok |-> FALSE, msg |-> NoStr],
                              [run |-> runs + 1, op |-> "return", index |-> 0,
                                format |-> None, ok |-> FALSE, msg |-> NoStr] >>
    /\ UNCHANGED <<request, playlist_dir, fields, locals, log_files, summaries>>

\* the playlist is enumerated and sliced to the requested window
EnumerateOk ==
    /\ pc = "idle"
    /\ runs' = runs + 1
    /\ entries' = WindowEntries(playlist, start_index, end_index)
    /\ total_count' = WindowTotal(playlist, start_index, end_index)
    /\ success_count' = 0
    /\ pos' = 0
    /\ pc' = "loop"
    /\ result' = None
    /\ events' = Append(events, [run |-> runs + 1, op |-> "enumerate", index |-> 0,
                                 format |-> None, ok |-> TRUE, msg |-> NoStr])
    /\ UNCHANGED <<request, playlist_dir, failed_downloads, format_attempts,
                   download_count, current_format, ret, codec, resolved, filename,
                   log_files, summaries>>

\* ------------------------------------------ download_with_format_fallback
\* The collaborator (YoutubeDL.download with outtmpl = output_path): it either
\* raises, or returns after writing the file the template names, with the
\* entry's title and the codec's extension filled in.

OutputFile(index, title, ext) == Fmt02(index) \o Sep \o title \o <<".">> \o ext
WavExt == <<"w","a","v">>
Mp3Ext == <<"m","p","3">>

ydl_download(dir, index, title, ext, outcome) ==
    IF outcome.ok THEN dir \cup {OutputFile(index, title, ext)} ELSE dir

WavTag == <<"W","A","V",":"," ">>
Mp3Tag == <<";"," ","M","P","3",":"," ">>
\* slip: the two messages are interchanged
CombinedErrorSwapped(wav_error_msg, mp3_error_msg) ==
    WavTag \o mp3_error_msg \o Mp3Tag \o wav_error_msg
CombinedError(wav_error_msg, mp3_error_msg) ==
    WavTag \o wav_error_msg \o Mp3Tag \o mp3_error_msg

AttemptRecord(index, title, format, error) ==
    [index |-> index, title |-> title, format |-> format, error |-> error]

\* slip: the failure of the second attempt is returned but not recorded
download_without_mp3_record(attempts, dir, title, index, wav, mp3) ==
    IF wav.ok
    THEN [raised |-> FALSE,
          success |-> TRUE, format_used |-> "wav", error_msg |-> NoStr,
          format_attempts |-> attempts,
          playlist_dir |-> ydl_download(dir, index, title, WavExt, wav),
          current_format |-> "wav",
          calls |-> << [format |-> "wav", ok |-> TRUE, msg |-> wav.msg] >>]
    ELSE [raised |-> FALSE,
          success |-> mp3.ok, format_used |-> IF mp3.ok THEN "mp3" ELSE None,
          error_msg |-> IF mp3.ok THEN NoStr ELSE CombinedError(wav.msg, mp3.msg),
          format_attempts |-> Append(attempts, AttemptRecord(index, title, "wav", wav.msg)),
          playlist_dir |-> ydl_download(dir, index, title, Mp3Ext, mp3),
          current_format |-> "mp3",
          calls |-> << [format |-> "wav", ok |-> FALSE, msg |-> wav.msg],
                       [format |-> "mp3", ok |-> mp3.ok, msg |-> mp3.msg] >>]

\* slip: the return after a successful wav download is missing, the mp3
\* download is made for every entry
download_both_formats(attempts, dir, title, index, wav, mp3) ==
    [raised |-> FALSE,
     success |-> wav.ok \/ mp3.ok,
     format_used |-> IF mp3.ok THEN "mp3" ELSE IF wav.ok THEN "wav" ELSE None,
     error_msg |-> IF wav.ok \/ mp3.ok THEN NoStr ELSE CombinedError(wav.msg, mp3.msg),
     format_attempts |->
        attempts \o (IF wav.ok THEN <<>> ELSE << AttemptRecord(index, title, "wav", wav.msg) >>)
                 \o (IF mp3.ok THEN <<>> ELSE << AttemptRecord(index, title, "mp3", mp3.msg) >>),
     playlist_dir |-> ydl_download(ydl_download(dir, index, title, WavExt, wav),
                                   index, title, Mp3Ext, mp3),
     current_format |-> "mp3",
     calls |-> << [format |-> "wav", ok |-> wav.ok, msg |-> wav.msg],
                  [format |-> "mp3", ok |-> mp3.ok, msg |-> mp3.msg] >>]

\* What one call does, given how the two collaborator calls would end (wav is
\* the outcome of the first, mp3 of the second, which is made only when the
\* first raised): the returned tuple, and the object and directory after it.
\* Both collaborator calls stand inside "try ... except Exception", so no
\* outcome leaves the call as an exception (raised).
download_with_format_fallback(attempts, dir, title, index, wav, mp3) ==
    IF wav.ok
    THEN [raised |-> FALSE,
          success |-> TRUE, format_used |-> "wav", error_msg |-> NoStr,
          format_attempts |-> attempts,
          playlist_dir |-> ydl_download(dir, index, title, WavExt, wav),
          current_format |-> "wav",
          calls |-> << [format |-> "wav", ok |-> TRUE, msg |-> wav.msg] >>]
    ELSE IF mp3.ok
    THEN [raised |-> FALSE,
          success |-> TRUE, format_used |-> "mp3", error_msg |-> NoStr,
          format_attempts |-> Append(attempts, AttemptRecord(index, title, "wav", wav.msg)),
          playlist_dir |-> ydl_download(dir, index, title, Mp3Ext, mp3),
          current_format |-> "mp3",
          calls |-> << [format |-> "wav", ok |-> FALSE, msg |-> wav.msg], [format |-> "mp3", ok |-> TRUE, msg |-> mp3.msg] >>]
    ELSE [raised |-> FALSE,
          success |-> FALSE, format_used |-> None,
          error_msg |-> CombinedError(wav.msg, mp3.msg),
          format_attempts |-> attempts \o << AttemptRecord(index, title, "wav", wav.msg),
                                             AttemptRecord(index, title, "mp3", mp3.msg) >>,
          playlist_dir |-> dir,
          current_format |-> "mp3",
          calls |-> << [format |-> "wav", ok |-> FALSE, msg |-> wav.msg], [format |-> "mp3", ok |-> FALSE, msg |-> mp3.msg] >>]

\* ------------------------------------------------- the loop of the run
InLoop == pc = "loop" /\ pos < Len(entries)
entry == entries[pos + 1]
i == pos + 1

\* slip: the record carries the position counted from 0
FailureRecordZeroBased(index, title, url, error) ==
    [index |-> index - 1, title |-> title, url |-> url, error |-> error]
FailureRecord(index, title, url, error) ==
    [index |-> index, title |-> title, url |-> url, error |-> error]

\* "if not entry: continue"
IterEmpty ==
    /\ InLoop
    /\ ~entry.present
    /\ pos' = pos + 1
    /\ events' = Append(events, Event("skip_empty", i, None, TRUE, NoStr))
    /\ UNCHANGED <<request, playlist_dir, fields, pc, entries, success_count, ret, codec,
                   resolved, filename, result, runs, log_files, summaries>>

\* slip: the "continue" after an existing file is missing, the entry is
\* downloaded all the same
IterExistsNoContinue ==
    /\ InLoop
    /\ entry.present
    /\ \E r \in check_file_exists(playlist_dir, i, entry.title) :
        /\ r.exists
        /\ resolved' = r
    /\ events' = events \o << Event("resolve", i, None, TRUE, NoStr),
                              Event("codec", i, "wav", TRUE, NoStr) >>
    /\ playlist_dir' = playlist_dir \cup {OutputFile(i, entry.title, WavExt)}
    /\ download_count' = i
    /\ success_count' = success_count + 2
    /\ pos' = pos + 1
    /\ UNCHANGED <<request, failed_downloads, format_attempts, total_count,
                   current_format, pc, entries, ret, codec, filename, result, runs,
                   log_files, summaries>>

\* the file is on disk: counted as a success, nothing downloaded
IterExists ==
    /\ InLoop
    /\ entry.present
    /\ \E r \in check_file_exists(playlist_dir, i, entry.title) :
        /\ r.exists
        /\ resolved' = r
        /\ events' = Append(events, Event("resolve", i, None, TRUE, NoStr))
    /\ download_count' = i
    /\ success_count' = success_count + 1
    /\ pos' = pos + 1
    /\ UNCHANGED <<request, playlist_dir, failed_downloads, format_attempts, total_count,
                   current_format, pc, entries, ret, codec, filename, result, runs,
                   log_files, summaries>>

\* entry['webpage_url'] raises KeyError, which the handler around the loop
\* catches: the call returns False
IterMissingUrl ==
    /\ InLoop
    /\ entry.present
    /\ \E r \in check_file_exists(playlist_dir, i, entry.title) :
        /\ ~r.exists
        /\ resolved' = r
    /\ ~entry.has_url
    /\ download_count' = i
    /\ pos' = pos + 1
    /\ pc' = "returned"
    /\ result' = "false"
    /\ events' = events \o << Event("resolve", i, None, FALSE, NoStr),
                              Event("return", 0, None, FALSE, NoStr) >>
    /\ UNCHANGED <<request, playlist_dir, failed_downloads, format_attempts, total_count,
                   current_format, entries, success_count, ret, codec, filename, runs,
                   log_files, summaries>>

CodecEvents(calls) ==
    [k \in DOMAIN calls |-> Event("codec", i, calls[k].format, calls[k].ok, calls[k].msg)]

ReturnedTuple(d) ==
    [success |-> d.success, format_used |-> d.format_used, error_msg |-> d.error_msg]

\* the entry is downloaded with the format fallback
Download(wav, mp3) ==
    /\ InLoop
    /\ entry.present
    /\ \E r \in check_file_exists(playlist_dir, i, entry.title) :
        /\ ~r.exists
        /\ resolved' = r
    /\ entry.has_url
    /\ LET d == download_with_format_fallback(format_attempts, playlist_dir,
                                              entry.title, i, wav, mp3)
           called == events \o << Event("resolve", i, None, FALSE, NoStr) >>
                            \o CodecEvents(d.calls)
       IN  /\ format_attempts' = d.format_attempts
           /\ playlist_dir' = d.playlist_dir
           /\ current_format' = d.current_format
           /\ IF d.raised
              THEN \* an exception would leave through the handler around the loop
                   /\ ret' = ret
                   /\ success_count' = success_count
                   /\ failed_downloads' = failed_downloads
                   /\ pc' = "returned"
                   /\ result' = "false"
                   /\ events' = called \o << Event("return", 0, None, FALSE, NoStr) >>
              ELSE IF d.success
              THEN /\ ret' = ReturnedTuple(d)
                   /\ success_count' = success_count + 1
                   /\ failed_downloads' = failed_downloads
                   /\ UNCHANGED <<pc, result>>
                   /\ events' = called
              ELSE /\ ret' = ReturnedTuple(d)
                   /\ success_count' = success_count
                   /\ failed_downloads' =
                        Append(failed_downloads,
                               FailureRecord(i, entry.title, Url, d.error_msg))
                   /\ UNCHANGED <<pc, result>>
                   /\ events' = Append(called,
                                       Event("failure_record", i, None, FALSE, d.error_msg))
    /\ codec' = <<wav, mp3>>
    /\ download_count' = i
    /\ pos' = pos + 1
    /\ UNCHANGED <<request, total_count, entries, filename, runs, log_files, summaries>>

IterWavOk == Download(Succeeded, Succeeded)
IterMp3Ok == \E w \in WavErrMsgs : Download(Raised(w), Succeeded)
IterBothFail == \E w \in WavErrMsgs, m \in Mp3ErrMsgs : Download(Raised(w), Raised(m))

\* ------------------------------------------------- save_failed_downloads
\* What the flush leaves under logs/, given where a write raises ("none",
\* "failed": writing failed_downloads_*.json, "attempts": writing
\* format_attempts_*.json).
LedgerFile(kind, records) == [run |-> runs, kind |-> kind, records |-> records]

save_failed_downloads(files, failed, attempts, raise_at) ==
    LET first == IF failed # <<>> /\ raise_at # "failed"
                 THEN Append(files, LedgerFile("failed_downloads", failed))
                 ELSE files
        second == IF attempts # <<>> /\ raise_at # "attempts"
                  THEN Append(first, LedgerFile("format_attempts", attempts))
                  ELSE first
    IN  IF raise_at = "failed" THEN files
        ELSE second

\* a write can raise only where a file is written
CanRaiseAt(raise_at) ==
    \/ raise_at = "failed" /\ failed_downloads # <<>>
    \/ raise_at = "attempts" /\ format_attempts # <<>>

LoopDone == pc = "loop" /\ pos = Len(entries)

SaveOk ==
    /\ LoopDone
    /\ log_files' = save_failed_downloads(log_files, failed_downloads, format_attempts, "none")
    /\ pc' = "summary"
    /\ events' = Append(events, Event("flush", 0, None, TRUE, NoStr))
    /\ UNCHANGED <<request, playlist_dir, fields, locals, result, runs, summaries>>

\* the exception leaves through the handler around the loop: no summary,
\* the call returns False
SaveRaises ==
    /\ LoopDone
    /\ \E at \in {"failed", "attempts"} :
        /\ CanRaiseAt(at)
        /\ log_files' = save_failed_downloads(log_files, failed_downloads, format_attempts, at)
        \* the event of a flush that raised names the write that raised
        /\ events' = events \o << Event("flush", 0, at, FALSE, NoStr),
                                  Event("return", 0, None, FALSE, NoStr) >>
    /\ pc' = "returned"
    /\ result' = "false"
    /\ UNCHANGED <<request, playlist_dir, fields, locals, runs, summaries>>

\* ------------------------------------------------- show_download_summary
CountFormat(attempts, format) ==
    Cardinality({k \in DOMAIN attempts : attempts[k].format = format})

\* round(n / d) as the ".1f" conversion rounds, for n >= 0 and d > 0
RoundDiv(n, d) ==
    LET q == n \div d
        r == n % d
    IN  IF 2 * r > d THEN q + 1
        ELSE IF 2 * r < d THEN q
        ELSE IF q % 2 = 0 THEN q ELSE q + 1

\* slip: a run with nothing to download is reported as complete
SuccessRateFullWhenEmpty(count, total) ==
    IF total > 0 THEN RoundDiv(1000 * count, total) ELSE 1000
\* the success rate printed, in tenths of a percent
SuccessRate(count, total) == IF total > 0 THEN RoundDiv(1000 * count, total) ELSE 0

\* What the summary prints. Every attempt record carries an 'error' key, so
\* wav_count is 0 and the breakdown is printed when an mp3 attempt is recorded.
show_download_summary(count, failed, attempts, total) ==
    LET mp3_fallback_count == CountFormat(attempts, "mp3")
    IN  [run |-> runs,
         success_count |-> count,
         breakdown |-> mp3_fallback_count > 0,
         wav_shown |-> count - mp3_fallback_count,
         mp3_shown |-> mp3_fallback_count,
         failed |-> [k \in DOMAIN failed |->
                        [index |-> failed[k].index, title |-> failed[k].title,
                         error |-> failed[k].error]],
         all_succeeded |-> failed = <<>>,
         success_rate |-> SuccessRate(count, total),
         wav_failures |-> CountFormat(attempts, "wav")]

ShowSummary ==
    /\ pc = "summary"
    /\ pc' = "returned"
    /\ result' = "true"
    /\ events' = events \o << Event("summary", 0, None, TRUE, NoStr),
                              Event("return", 0, None, TRUE, NoStr) >>
    /\ summaries' = Append(summaries, show_download_summary(success_count, failed_downloads,
                                                            format_attempts, total_count))
    /\ UNCHANGED <<request, playlist_dir, fields, locals, runs, log_files>>

Next ==
    \/ EnumerateFails
    \/ EnumerateOk
    \/ IterEmpty
    \/ IterExists
    \/ IterMissingUrl
    \/ IterWavOk
    \/ IterMp3Ok
    \/ IterBothFail
    \/ SaveOk
    \/ SaveRaises
    \/ ShowSummary

Spec == Init /\ [][Next]_vars

\* download_playlist is called again on the same object with the same request
CallAgain ==
    /\ pc = "returned"
    /\ runs < MaxRuns
    /\ pc' = "idle"
    /\ UNCHANGED <<request, playlist_dir, fields, locals, result, runs, log_files, summaries, events>>

NextRerun == Next \/ CallAgain

SpecRerun == InitRerun /\ [][NextRerun]_vars

\* --------------------------- one call of download_with_format_fallback
\* The loop stands before the call for an entry that is not on disk; the
\* ledger may hold a record of an earlier run.
Downloadable == [present : {TRUE}, title : Titles, has_url : {TRUE}]
EarlierAttempts == {<<>>, << AttemptRecord(1, Song, "wav", <<"f","f">>) >>}

InitFallback ==
    /\ playlist \in SeqsUpTo(Downloadable, MaxRerunEntries) \ {<<>>}
    /\ start_index = 1
    /\ end_index = 0
    /\ playlist_dir = {}
    /\ failed_downloads = <<>>
    /\ format_attempts \in EarlierAttempts
    /\ total_count = Len(playlist)
    /\ pos \in 0..(Len(playlist) - 1)
    /\ download_count = pos + 1
    /\ current_format = "wav"
    /\ pc = "call"
    /\ entries = playlist
    /\ success_count = 0
    /\ ret = NoRet
    /\ codec \in CodecOutcomes \X CodecOutcomes
    /\ resolved = NotFound
    /\ filename = NoStr
    /\ result = None
    /\ runs = 1
    /\ log_files = <<>>
    /\ summaries = <<>>
    /\ events = <<>>

FallbackCall ==
    /\ pc = "call"
    /\ LET d == download_with_format_fallback(format_attempts, playlist_dir,
                                              entry.title, i, codec[1], codec[2])
       IN  /\ format_attempts' = d.format_attempts
           /\ playlist_dir' = d.playlist_dir
           /\ current_format' = d.current_format
           /\ events' = events \o CodecEvents(d.calls)
           /\ ret' = IF d.raised THEN ret ELSE ReturnedTuple(d)
           /\ pc' = IF d.raised THEN "raised" ELSE "called"
    /\ UNCHANGED <<request, failed_downloads, total_count, download_count, entries, pos,
                   success_count, codec, resolved, filename, result, runs, log_files,
                   summaries>>

NextFallback == FallbackCall

SpecFallback == InitFallback /\ [][NextFallback]_vars

\* ------------------------------------------------------------ properties
EventIds == DOMAIN events
IsOp(n, op) == events[n].op = op
SameEntry(m, n) == events[m].run = events[n].run /\ events[m].index = events[n].index
\* the playlist of run r was enumerated
Enumerated(r) == \E n \in EventIds : events[n].run = r /\ IsOp(n, "enumerate") /\ events[n].ok
\* entry j of the window was reached by the loop of run r
Reached(r, j) ==
    \E n \in EventIds : /\ events[n].run = r
                        /\ events[n].index = j
                        /\ events[n].op \in {"skip_empty", "resolve"}
\* run r counted entry j as a success: found on disk, or downloaded
CountedSuccess(n) == events[n].ok /\ events[n].op \in {"resolve", "codec"}
ResolverSaysExists == \E r \in check_file_exists(playlist_dir, i, entry.title) : r.exists

\* C1: when both codec attempts fail for an entry, a FailureRecord is appended
\* for it and, once the run has returned, every later entry of the window
\* that is not empty has been processed.
C1_LaterEntriesProcessed ==
    \A n \in EventIds :
        (IsOp(n, "codec") /\ events[n].format = "mp3" /\ ~events[n].ok) =>
            /\ \E k \in DOMAIN failed_downloads :
                    failed_downloads[k].index = events[n].index
            /\ pc = "returned" =>
                    \A j \in (events[n].index + 1)..Len(entries) :
                        entries[j].present => Reached(events[n].run, j)

\* C2: the returned tuple is determined by how the two collaborator calls end:
\* (success, wav, no error) without a second call when the first succeeds,
\* (success, mp3, no error) when only the second succeeds, and otherwise
\* (failure, no format, a message holding "WAV: <first error>" before
\* "MP3: <second error>"); the call never raises.
C2_ResultDetermined ==
    /\ pc # "raised"
    /\ pc = "called" =>
        LET wav == codec[1]
            mp3 == codec[2]
            Invoked(f) == \E n \in EventIds : IsOp(n, "codec") /\ events[n].format = f
        IN  /\ Invoked("wav")
            /\ wav.ok =>
                /\ ret = [success |-> TRUE, format_used |-> "wav", error_msg |-> NoStr]
                /\ ~Invoked("mp3")
            /\ (~wav.ok /\ mp3.ok) =>
                /\ ret = [success |-> TRUE, format_used |-> "mp3", error_msg |-> NoStr]
                /\ Invoked("mp3")
            /\ (~wav.ok /\ ~mp3.ok) =>
                /\ ~ret.success
                /\ ret.format_used = None
                /\ \E a, b \in 1..Len(ret.error_msg) :
                    /\ a < b
                    /\ OccursAt(ret.error_msg, <<"W","A","V",":"," ">> \o wav.msg, a)
                    /\ OccursAt(ret.error_msg, <<"M","P","3",":"," ">> \o mp3.msg, b)

\* a call in which both attempts failed, with different messages
C2_BothFailed ==
    pc = "called" /\ ~codec[1].ok /\ ~codec[2].ok /\ codec[1].msg # codec[2].msg

\* C3: one call appends one AttemptRecord per failed codec attempt, in the
\* order wav, mp3, each with the entry's ordinal: none, one or two.
C3_AttemptsAppended ==
    [][(pc = "call" /\ pc' # "call") =>
        LET before == Len(format_attempts)
            new == SubSeq(format_attempts', before + 1, Len(format_attempts'))
            tags == [k \in DOMAIN new |-> <<new[k].format, new[k].index>>]
        IN  /\ SubSeq(format_attempts', 1, before) = format_attempts
            /\ tags = IF codec[1].ok THEN <<>>
                      ELSE IF codec[2].ok THEN << <<"wav", i>> >>
                      ELSE << <<"wav", i>>, <<"mp3", i>> >>]_vars

\* a call in which both attempts failed, made with a record already in the ledger
C3_TwoAppended ==
    pc = "called" /\ ~codec[1].ok /\ ~codec[2].ok /\ Len(format_attempts) = 3

\* C4: an entry the resolver reports as existing is counted as a success in a
\* step that calls no codec and appends no record; and a codec is called for
\* an entry only after the resolver has reported it missing in the same run.
C4_ExistingStep ==
    (InLoop /\ entry.present /\ ResolverSaysExists) =>
        /\ success_count' = success_count + 1
        /\ UNCHANGED <<format_attempts, failed_downloads, playlist_dir, pc>>
        /\ pos' = pos + 1
        /\ events' = Append(events, Event("resolve", i, None, TRUE, NoStr))
C4_ResolvedFirst ==
    \A n \in EventIds :
        /\ IsOp(n, "codec") =>
            \E m \in 1..(n - 1) : IsOp(m, "resolve") /\ SameEntry(m, n) /\ ~events[m].ok
        /\ (IsOp(n, "resolve") /\ events[n].ok) =>
            \A m \in EventIds :
                SameEntry(m, n) => events[m].op \notin {"codec", "failure_record"}
C4_ExistingSkipped == []C4_ResolvedFirst /\ [][C4_ExistingStep]_vars

\* an entry was found on disk and the loop went on to resolve the next one
C4_SkippedOne ==
    \E m, n \in EventIds :
        /\ m < n
        /\ IsOp(m, "resolve") /\ events[m].ok
        /\ IsOp(n, "resolve") /\ events[n].index = events[m].index + 1

C6_MissingUrlRecorded ==
    \A n \in EventIds :
        (IsOp(n, "resolve") /\ ~events[n].ok /\ ~entries[events[n].index].has_url) =>
            /\ \E k \in DOMAIN failed_downloads :
                    failed_downloads[k].index = events[n].index
            /\ pc = "returned" => pos = Len(entries)

\* C7: a run whose playlist was enumerated returns true.
C7_FalseOnlyOnEnumeration ==
    (pc = "returned" /\ Enumerated(runs)) => result = "true"

\* C8: a run whose playlist was enumerated has, when it returns, flushed the
\* ledger exactly once, after its last entry and before its summary.
C8_FlushedOnce ==
    (pc = "returned" /\ Enumerated(runs)) =>
        \E f \in EventIds :
            /\ IsOp(f, "flush") /\ events[f].run = runs
            /\ \A n \in EventIds :
                events[n].run = runs =>
                    /\ IsOp(n, "flush") => n = f
                    /\ events[n].op \in {"skip_empty", "resolve", "codec", "failure_record"}
                            => n < f
                    /\ IsOp(n, "summary") => f < n

\* C9: a run whose ledger write failed has, when it returns, printed its summary.
C9_SummarySurvives ==
    \A n \in EventIds :
        (IsOp(n, "flush") /\ ~events[n].ok /\ pc = "returned") =>
            \E k \in DOMAIN summaries : summaries[k].run = events[n].run

\* C10: the step in which the enumeration fails returns false at once: no
\* entry resolved or downloaded, no record appended, no ledger file written,
\* no summary printed.
C10_EnumerationFailure ==
    [][(pc = "idle" /\ events' # events /\ ~events'[Len(events) + 1].ok) =>
        /\ pc' = "returned"
        /\ result' = "false"
        /\ Len(events') = Len(events) + 2
        /\ events'[Len(events) + 2].op = "return"
        /\ UNCHANGED <<failed_downloads, format_attempts, log_files, summaries,
                       playlist_dir>>]_vars

\* a run whose enumeration failed has returned
C10_EnumerationFailed ==
    pc = "returned" /\ \E n \in EventIds : IsOp(n, "enumerate") /\ ~events[n].ok

\* ------------------------------------------- one call of check_file_exists
\* The loop stands before the resolver call for the entry with the ordinal
\* pos + 1; the playlist directory holds any of the files below.
M4aExt == <<"m","4","a">>
WebmExt == <<"w","e","b","m">>
OpusExt == <<"o","p","u","s">>
DifferentSong == <<"A"," ","T","o","t","a","l","l","y"," ",
                   "D","i","f","f","e","r","e","n","t"," ","S","o","n","g">>
ResolverFiles ==
    { OutputFile(1, Song, WavExt),
      OutputFile(1, Song, Mp3Ext),
      OutputFile(1, DifferentSong, Mp3Ext),
      OutputFile(1, sanitize_filename(Odd), Mp3Ext),
      OutputFile(1, Odd, WavExt),
      OutputFile(1, Odd, OpusExt),
      OutputFile(2, Song, WebmExt),
      OutputFile(12, Song, M4aExt) }
ResolverOrdinals == {1, 2, 12}

\* Titles of one to five keywords ("Aaa", "Aaa Bbb", ...), a title with
\* punctuation and a short token, and a title of short tokens only; files
\* with the prefix of ordinal 1 whose stems hold some of the keywords, in
\* lower case and joined by "_", so that none is an exact candidate.
KeywordLetters == <<"a", "b", "c", "d", "e">>
RECURSIVE Join(_, _)
Join(words, sep) ==
    IF words = <<>> THEN <<>>
    ELSE IF Len(words) = 1 THEN words[1]
    ELSE words[1] \o sep \o Join(Tail(words), sep)
KeywordTitle(n) == Join([k \in 1..n |-> <<UpperChar(KeywordLetters[k]), KeywordLetters[k],
                                          KeywordLetters[k]>>], <<" ">>)
PunctTitle == <<"A","a","a",","," ","o","f"," ","B","b","b","!">>
ShortTitle == <<"a","b"," ","o","f">>
KeywordTitles == {KeywordTitle(n) : n \in DOMAIN KeywordLetters} \cup {PunctTitle, ShortTitle}
ResolverTitles == Titles \cup KeywordTitles

KeywordFile(S) ==
    LET Some(k) == k \in S
        letters == SelectSeq([k \in DOMAIN KeywordLetters |-> k], Some)
    IN  OutputFile(1, Join([k \in DOMAIN letters |->
                                <<KeywordLetters[letters[k]], KeywordLetters[letters[k]],
                                  KeywordLetters[letters[k]]>>], <<"_">>), Mp3Ext)
KeywordFiles == {KeywordFile(S) : S \in SUBSET DOMAIN KeywordLetters}
                    \cup {OutputFile(1, <<"a","b","_","o","f">>, Mp3Ext)}
\* one of these files, alone or beside the file that holds every keyword
KeywordDirs == {{f} : f \in KeywordFiles}
                   \cup {{f, KeywordFile(DOMAIN KeywordLetters)} : f \in KeywordFiles}

InitResolver ==
    /\ playlist_dir \in (SUBSET ResolverFiles) \cup KeywordDirs
    /\ \E title \in ResolverTitles, index \in ResolverOrdinals :
        /\ playlist = [k \in 1..index |-> [present |-> TRUE, title |-> title, has_url |-> TRUE]]
        /\ pos = index - 1
    /\ start_index = 1
    /\ end_index = 0
    /\ entries = playlist
    /\ total_count = Len(playlist)
    /\ download_count = pos
    /\ failed_downloads = <<>>
    /\ format_attempts = <<>>
    /\ current_format = "wav"
    /\ pc = "resolve"
    /\ success_count = 0
    /\ ret = NoRet
    /\ codec = <<Succeeded, Succeeded>>
    /\ resolved = NotFound
    /\ filename = NoStr
    /\ result = None
    /\ runs = 1
    /\ log_files = <<>>
    /\ summaries = <<>>
    /\ events = <<>>

ResolveCall ==
    /\ pc = "resolve"
    /\ resolved' \in check_file_exists(playlist_dir, i, entry.title)
    /\ pc' = "resolved"
    /\ events' = Append(events, Event("resolve", i, None, resolved'.exists, NoStr))
    /\ UNCHANGED <<request, playlist_dir, fields, entries, pos, success_count, ret, codec,
                   filename, result, runs, log_files, summaries>>

NextResolver == ResolveCall

SpecResolver == InitResolver /\ [][NextResolver]_vars

\* C11: with "01 - A Totally Different Song.mp3" the only file of the
\* directory, check_file_exists(dir, 1, "Song") answers exists = false: an
\* unrelated file that shares the ordinal prefix is not taken for the entry.
C11_UnrelatedFileNotMatched ==
    (/\ pc = "resolved"
     /\ playlist_dir = {OutputFile(1, DifferentSong, Mp3Ext)}
     /\ i = 1
     /\ entry.title = Song)
    => ~resolved.exists

\* C12: when the directory holds a file "{ordinal:02d} - {stem}.{ext}" whose
\* stem is the sanitized or the raw title and whose ext is one of wav, mp3,
\* m4a, webm, opus, check_file_exists answers exists = true with the first
\* such file in the order sanitized stem over the extensions as listed, then
\* raw stem over the extensions, and the format is the extension upper-cased.
C12_ExactMatchFirstHit ==
    pc = "resolved" =>
        LET exts == <<WavExt, Mp3Ext, M4aExt, WebmExt, OpusExt>>
            stems == <<sanitize_filename(entry.title), entry.title>>
            name(h) == Fmt02(i) \o <<" ","-"," ">> \o stems[h[1]] \o <<".">> \o exts[h[2]]
            present == {h \in (1..2) \X (1..5) : name(h) \in playlist_dir}
            before(a, b) == a[1] < b[1] \/ (a[1] = b[1] /\ a[2] <= b[2])
        IN  present # {} =>
                \E h \in present :
                    /\ \A o \in present : before(h, o)
                    /\ resolved = [exists |-> TRUE, path |-> name(h),
                                   format |-> Upper(exts[h[2]])]

\* the sanitized title as mp3 and the raw title as wav are both on disk: the
\* sanitized one is found
C12_SanitizedBeforeRaw ==
    /\ pc = "resolved"
    /\ entry.title = Odd
    /\ OutputFile(1, sanitize_filename(Odd), Mp3Ext) \in playlist_dir
    /\ OutputFile(1, Odd, WavExt) \in playlist_dir
    /\ i = 1
    /\ resolved.exists
    /\ resolved.format = <<"M","P","3">>

\* C13: for a window [start, end] with 1 <= start <= end <= playlist length,
\* a run whose playlist was enumerated has, when it returns, processed exactly
\* end - start + 1 entries, in playlist order, under the window-relative
\* ordinals 1..end - start + 1; and the ordinal of an entry is the one given
\* to the resolver, the one in the name of its output file and the one in
\* its ledger records.
C13_WindowOrdinals ==
    (/\ pc = "returned"
     /\ Enumerated(runs)
     /\ end_index # 0
     /\ 1 <= start_index /\ start_index <= end_index /\ end_index <= Len(playlist))
    =>
    LET n == end_index - start_index + 1
        reached == {m \in EventIds : events[m].op \in {"skip_empty", "resolve"}}
    IN  /\ {events[m].index : m \in reached} = 1..n
        /\ Cardinality(reached) = n
        /\ \A a, b \in reached : a < b => events[a].index < events[b].index
        /\ \A j \in 1..n : entries[j] = playlist[start_index - 1 + j]
        /\ \A m \in EventIds :
                IsOp(m, "codec") =>
                    /\ \E a \in reached : a < m /\ IsOp(a, "resolve") /\ SameEntry(a, m)
                    /\ events[m].ok =>
                            \E ext \in {WavExt, Mp3Ext} :
                                OutputFile(events[m].index, entries[events[m].index].title, ext)
                                    \in playlist_dir
        /\ \A k \in DOMAIN format_attempts :
                /\ format_attempts[k].index \in 1..n
                /\ format_attempts[k].title = entries[format_attempts[k].index].title
        /\ \A k \in DOMAIN failed_downloads :
                /\ failed_downloads[k].index \in 1..n
                /\ failed_downloads[k].title = entries[failed_downloads[k].index].title

\* C14: the per-format counts a summary prints are right: the count for the
\* secondary format is the number of entries of the run downloaded as mp3,
\* the count for the primary format the number downloaded as wav.
C14_BreakdownCorrect ==
    \A k \in DOMAIN summaries :
        LET DownloadedAs(format) ==
                Cardinality({n \in EventIds : /\ events[n].run = summaries[k].run
                                              /\ IsOp(n, "codec")
                                              /\ events[n].format = format
                                              /\ events[n].ok})
        IN  summaries[k].breakdown =>
                /\ summaries[k].mp3_shown = DownloadedAs("mp3")
                /\ summaries[k].wav_shown = DownloadedAs("wav")

\* C15: the success rate a summary prints is 100 * succeeded / total, to the
\* tenth of a percent it is printed with, and it is 0 when total is 0.
C15_SuccessRate ==
    \A k \in DOMAIN summaries :
        LET succeeded == Cardinality({n \in EventIds : /\ events[n].run = summaries[k].run
                                                       /\ CountedSuccess(n)})
            tenths == summaries[k].success_rate
            off == tenths * total_count - 1000 * succeeded
        IN  IF total_count = 0
            THEN tenths = 0
            ELSE total_count > 0 /\ 2 * off <= total_count /\ -2 * off <= total_count

\* the summary of a run over an empty window: start_index 2 on a playlist of
\* one entry
C15_EmptyWindowRate ==
    /\ summaries # <<>>
    /\ Len(playlist) = 1
    /\ start_index = 2
    /\ total_count = 0
    /\ summaries[1].success_rate = 0

\* ------------------------------------------- calls of sanitize_filename
\* The names sanitized: a run of letters that is empty or ends near the
\* truncation limit, followed by a few characters that are letters,
\* whitespace, illegal characters or dots.
MaxTail == 3
TailChars == {"a", " ", "\t", "?", "."}
PadLens == {0} \cup ((MaxNameLen - 2)..MaxNameLen)
Pad(n) == [k \in 1..n |-> "x"]
SanitizeInputs == {Pad(n) \o t : n \in PadLens, t \in SeqsUpTo(TailChars, MaxTail)}

InitSanitize ==
    /\ filename \in SanitizeInputs
    /\ playlist = <<>>
    /\ start_index = 1
    /\ end_index = 0
    /\ playlist_dir = {}
    /\ failed_downloads = <<>>
    /\ format_attempts = <<>>
    /\ total_count = 0
    /\ download_count = 0
    /\ current_format = "wav"
    /\ pc = "sanitize"
    /\ entries = <<>>
    /\ pos = 0
    /\ success_count = 0
    /\ ret = NoRet
    /\ codec = <<Succeeded, Succeeded>>
    /\ resolved = NotFound
    /\ result = None
    /\ runs = 0
    /\ log_files = <<>>
    /\ summaries = <<>>
    /\ events = <<>>

\* the function is applied to the name, and then once more to what it returned
SanitizeCall ==
    /\ pc \in {"sanitize", "sanitized"}
    /\ filename' = sanitize_filename(filename)
    /\ pc' = IF pc = "sanitize" THEN "sanitized" ELSE "resanitized"
    /\ UNCHANGED <<request, playlist_dir, fields, entries, pos, success_count, ret, codec,
                   resolved, result, runs, log_files, summaries, events>>

NextSanitize == SanitizeCall

SpecSanitize == InitSanitize /\ [][NextSanitize]_vars

\* C16: sanitize_filename is idempotent: applied to a name it returned, it
\* returns that name, also for names longer than the truncation limit and for
\* names cut at whitespace or inside the truncation marker.
C16_Idempotent == [][pc = "sanitized" => filename' = filename]_vars

\* a name that was cut at whitespace has been sanitized again
C16_CutAtWhitespace ==
    /\ pc = "resanitized"
    /\ Len(filename) = MaxNameLen + Len(Ellipsis)
    /\ filename[MaxNameLen] = " "

\* C17: at the flush of a run, a failed_downloads file is written exactly when
\* the FailureRecord sequence is not empty and, independently of it, a
\* format_attempts file exactly when the AttemptRecord sequence is not empty
\* (a file whose own write raises is not expected).
C17_FileIffRecords ==
    \A n \in EventIds :
        IsOp(n, "flush") =>
            LET Written(kind) == \E k \in DOMAIN log_files :
                                    /\ log_files[k].run = events[n].run
                                    /\ log_files[k].kind = kind
                raised_at == IF events[n].ok THEN None ELSE events[n].format
            IN  /\ Written("failed_downloads") <=>
                        (failed_downloads # <<>> /\ raised_at # "failed")
                /\ Written("format_attempts") <=>
                        (format_attempts # <<>> /\ raised_at # "attempts")

\* C18: the ledger files a run writes hold the records of that run only, also
\* when the run is the second one of the same downloader object: as many
\* FailureRecords as the run appended, and as many AttemptRecords as codec
\* calls of the run failed.
C18_LedgerOfOneRun ==
    \A k \in DOMAIN log_files :
        LET r == log_files[k].run
            failures == {n \in EventIds : events[n].run = r /\ IsOp(n, "failure_record")}
            attempts == {n \in EventIds : events[n].run = r /\ IsOp(n, "codec") /\ ~events[n].ok}
        IN  /\ log_files[k].kind = "failed_downloads" =>
                    Len(log_files[k].records) = Cardinality(failures)
            /\ log_files[k].kind = "format_attempts" =>
                    Len(log_files[k].records) = Cardinality(attempts)

C20_CodecCallsInOrder ==
    LET Calls(r, j, format) == {n \in EventIds : /\ events[n].run = r
                                                 /\ IsOp(n, "codec")
                                                 /\ events[n].index = j
                                                 /\ events[n].format = format}
        Outcome(n) == \/ IsOp(n, "skip_empty")
                      \/ IsOp(n, "resolve") /\ events[n].ok
                      \/ IsOp(n, "codec") /\ events[n].ok
                      \/ IsOp(n, "failure_record")
    IN  \A n \in EventIds :
            IsOp(n, "codec") =>
                LET r == events[n].run
                    j == events[n].index
                IN  /\ events[n].format \in {"wav", "mp3"}
                    /\ Cardinality(Calls(r, j, "wav")) <= 1
                    /\ Cardinality(Calls(r, j, "mp3")) <= 1
                    /\ events[n].format = "mp3" =>
                            \E m \in Calls(r, j, "wav") : m < n /\ ~events[m].ok
                    /\ \A k \in 1..(j - 1) :
                            /\ \E m \in EventIds : /\ m < n
                                                    /\ events[m].run = r
                                                    /\ events[m].index = k
                                                    /\ Outcome(m)
                            /\ \A m \in EventIds :
                                    (events[m].run = r /\ events[m].index = k) => m < n

\* the mp3 codec was called for the second entry, after the first entry was
\* downloaded as wav
C20_FallbackOnSecondEntry ==
    \E n, m \in EventIds :
        /\ m < n
        /\ IsOp(m, "codec") /\ events[m].index = 1 /\ events[m].format = "wav" /\ events[m].ok
        /\ IsOp(n, "codec") /\ events[n].index = 2 /\ events[n].format = "mp3"

\* C21: when no exact candidate is on disk, the resolver answers with a file
\* that begins with "{ordinal:02d} -" exactly when the title has a keyword
\* longer than two characters and 10 * matched >= 7 * total, matched being the
\* number of those keywords that occur in the file's lower-cased stem: all
\* of 1, 2 or 3 keywords, 3 of 4, 4 of 5; and never for a title without such
\* a keyword.
C21_KeywordsOf(title) ==
    IF title = Song THEN << <<"s","o","n","g">> >>
    ELSE IF title = Odd THEN << <<"a","_","b">> >>
    ELSE IF title = PunctTitle THEN << <<"a","a","a">>, <<"b","b","b">> >>
    ELSE IF title = ShortTitle THEN <<>>
    ELSE [k \in 1..((Len(title) + 1) \div 4) |->
             <<KeywordLetters[k], KeywordLetters[k], KeywordLetters[k]>>]
C21_Needed(total) ==
    IF total = 0 THEN 1 ELSE IF total <= 3 THEN total ELSE total - 1
C21_FuzzyThreshold ==
    pc = "resolved" =>
        LET exts == <<WavExt, Mp3Ext, M4aExt, WebmExt, OpusExt>>
            stems == <<sanitize_filename(entry.title), entry.title>>
            name(h) == Fmt02(i) \o <<" ","-"," ">> \o stems[h[1]] \o <<".">> \o exts[h[2]]
            exact == {h \in (1..2) \X (1..5) : name(h) \in playlist_dir}
            keywords == C21_KeywordsOf(entry.title)
            Matched(f) == Cardinality({k \in DOMAIN keywords :
                                          Contains(Lower(PathStem(f)), keywords[k])})
            accepted == {f \in playlist_dir :
                            /\ StartsWith(f, Fmt02(i) \o <<" ","-">>)
                            /\ Matched(f) >= C21_Needed(Len(keywords))}
        IN  exact = {} =>
                /\ resolved.exists <=> accepted # {}
                /\ resolved.exists => resolved.path \in accepted

\* three of four keywords are in the only file: it is accepted
C21_ThreeOfFour ==
    /\ pc = "resolved"
    /\ entry.title = KeywordTitle(4)
    /\ playlist_dir = {KeywordFile({1, 2, 4})}
    /\ resolved.exists

\* C22: in every state of the loop of a run with start <= end (or no end),
\* succeeded + FailureRecords of the run <= entries iterated so far <=
\* total_count; and once the loop has completed, succeeded + failed is the
\* number of non-empty entries of the sliced window.
C22_Counting ==
    (/\ pc \in {"loop", "summary", "returned"}
     /\ Enumerated(runs)
     /\ end_index = 0 \/ start_index <= end_index)
    =>
    LET failed == Cardinality({n \in EventIds : /\ events[n].run = runs
                                                /\ IsOp(n, "failure_record")})
        iterated == Cardinality({n \in EventIds : /\ events[n].run = runs
                                                  /\ events[n].op \in {"skip_empty", "resolve"}})
        last == IF end_index = 0 \/ end_index > Len(playlist) THEN Len(playlist) ELSE end_index
        nonempty == Cardinality({j \in start_index..last : playlist[j].present})
        completed == \/ pc = "loop" /\ iterated = Len(entries)
                     \/ \E n \in EventIds : events[n].run = runs /\ IsOp(n, "flush")
    IN  /\ success_count + failed <= iterated
        /\ iterated <= total_count
        /\ completed => success_count + failed = nonempty

\* the loop has completed over a window with a removed entry, a downloaded
\* entry and a failed entry
C22_MixedWindowDone ==
    /\ pc = "loop"
    /\ pos = Len(entries)
    /\ \E j \in DOMAIN entries : ~entries[j].present
    /\ success_count = 1
    /\ Len(failed_downloads) = 1

\* C23: a summary that reports no failed item, for a run with total > 0,
\* reports as many successes as the total and a success rate of 100%.
C23_AllSucceededIsComplete ==
    \A k \in DOMAIN summaries :
        (summaries[k].all_succeeded /\ total_count > 0) =>
            /\ summaries[k].success_count = total_count
            /\ summaries[k].success_rate = 1000
====
